---- MODULE Spec2Model ----
(***************************************************************************)
(* Model of the neural-network playground component                        *)
(* (src/components/neural-network-playground.tsx) and of the calls the     *)
(* NetworkDesigner panel makes into it.                                    *)
(*                                                                         *)
(* The component holds React state: the layer list, the training           *)
(* configuration, the simulated training run (isTraining,                  *)
(* trainingProgress, trainingStats), the stored predictions and the        *)
(* active dataset.  Every event handler is one action; the callback of    *)
(* setInterval is the action Tick.  The handles of the intervals that      *)
(* were created and not yet cleared are program state too (the browser     *)
(* keeps them), and are the variable intervals.                            *)
(*                                                                         *)
(* Numbers that are fractions in the source are kept in thousandths        *)
(* (0.1 is 100, 0.98 is 980).                                              *)
(***************************************************************************)
EXTENDS Integers, Sequences, FiniteSets

VARIABLES
    mounted,          \* the mount effect (useEffect, [] deps) has run
    layers,           \* networkConfig.layers
    trainingConfig,   \* trainingConfig
    isTraining,       \* isTraining
    trainingProgress, \* trainingProgress
    trainingStats,    \* trainingStats: [loss, accuracy]
    predictions,      \* predictions
    dataset,          \* dataset
    intervals,        \* live setInterval handles: captured epochs -> how many
    lastOp,           \* history: the handler that ran last, with its argument
    run               \* history: the run begun by the last startTraining

topoVars == <<layers>>
trainVars == <<trainingConfig, isTraining, trainingProgress, trainingStats,
               predictions, dataset, intervals, run>>
vars == <<mounted, layers, trainingConfig, isTraining, trainingProgress,
          trainingStats, predictions, dataset, intervals, lastOp, run>>

----------------------------------------------------------------------------
(* Bounds of the model *)

\* addHiddenLayer is not offered once the list holds this many layers
MaxLayers == 4
\* the epochs slider, scaled down: the model's runs last MinEpochs..MaxEpochs
\* ticks instead of 10..500
MinEpochs == 2
MaxEpochs == 3
\* startTraining is not offered once this many intervals are live
MaxIntervals == 2

----------------------------------------------------------------------------
(* Network topology *)

\* value of a field the object does not have (the input layer's activation)
Undefined == "undefined"

MinNeurons == 1
MaxNeurons == 20
HiddenNeurons == 4

Activations == {"relu", "sigmoid", "tanh", "linear"}
NeuronChoices == {MinNeurons, HiddenNeurons, MaxNeurons}

Layer(type, neurons, activation) ==
    [type |-> type, neurons |-> neurons, activation |-> activation]

DefaultLayers ==
    << Layer("input", 2, Undefined),
       Layer("hidden", HiddenNeurons, "relu"),
       Layer("output", 1, "sigmoid") >>

\* Splice with the index taken as counted from 1
Splice_OffByOne(arr, index) ==
    SubSeq(arr, 1, index + 1) \o SubSeq(arr, index + 3, Len(arr))

\* [...arr] followed by splice(index, 1), index counted from 0
Splice(arr, index) ==
    SubSeq(arr, 1, index) \o SubSeq(arr, index + 2, Len(arr))

\* handleAddLayer that writes the new layer over the last one
AddLayerResult_Overwrites(ls) ==
    [ls EXCEPT ![Len(ls)] = Layer("hidden", HiddenNeurons, "relu")]

\* the new layer list of handleAddLayer
AddLayerResult(ls) ==
    Append(ls, Layer("hidden", HiddenNeurons, "relu"))

\* handleRemoveLayer whose early return protects the first index only
RemoveLayerResult_FirstOnly(ls, index) ==
    IF index = 0 THEN ls ELSE Splice(ls, index)

\* the new layer list of handleRemoveLayer(index); the early return leaves
\* the state as it is
RemoveLayerResult(ls, index) ==
    IF index = 0 \/ index = Len(ls) - 1
    THEN ls
    ELSE Splice(ls, index)

\* { ...newLayers[index], ...updates }: the fields of updates overwrite
Merge(layer, updates) ==
    [f \in DOMAIN layer |->
        IF f \in DOMAIN updates THEN updates[f] ELSE layer[f]]

\* the new layer list of handleUpdateLayer(index, updates)
UpdateLayerResult(ls, index, updates) ==
    [ls EXCEPT ![index + 1] = Merge(ls[index + 1], updates)]

----------------------------------------------------------------------------
(* Datasets *)

\* Fractions are kept in thousandths
One == 10 * 10 * 10

\* the number of points the circle and the sine generators make
\* (100 each in the source), scaled down
CirclePoints == 2
SinePoints == 4

Max(a, b) == IF a >= b THEN a ELSE b
Min(a, b) == IF a <= b THEN a ELSE b

EmptyDataset == [inputs |-> << >>, outputs |-> << >>, type |-> "classification"]

XorDataset ==
    [inputs  |-> << <<0, 0>>, <<0, One>>, <<One, 0>>, <<One, One>> >>,
     outputs |-> << <<0>>, <<One>>, <<One>>, <<0>> >>,
     type    |-> "classification"]

\* Math.random() * Math.PI * 2, drawn among the quarter turns 0..3, where
\* cosine and sine are exact
Cos4(q) == CASE q = 0 -> 1 [] q = 1 -> 0 [] q = 2 -> -1 [] OTHER -> 0
Sin4(q) == CASE q = 0 -> 0 [] q = 1 -> 1 [] q = 2 -> 0 [] OTHER -> -1
QuarterTurns == 0 .. 3
\* Math.random() for the radius, in thousandths: [0, 1)
RadiusChoices == {499, 500}
\* the draws of one circle dataset: per point <<quarter turn, radius>>
CircleDraws == [1 .. CirclePoints -> QuarterTurns \X RadiusChoices]
NoDraws == [i \in 1 .. CirclePoints |-> <<0, 0>>]

CircleDataset(rnd) ==
    [inputs  |-> [i \in 1 .. CirclePoints |->
                    << Cos4(rnd[i][1]) * rnd[i][2], Sin4(rnd[i][1]) * rnd[i][2] >>],
     outputs |-> [i \in 1 .. CirclePoints |->
                    << IF rnd[i][2] < 500 THEN One ELSE 0 >>],
     type    |-> "classification"]

\* Math.sin at i/n of a full turn, in thousandths, by Bhaskara's
\* rational approximation sin(pi*p/q) ~ 16p(q-p) / (5q^2 - 4p(q-p)) on each
\* half turn (exact at the quarter turns)
HalfSine(p, q) == (16 * One * p * (q - p)) \div (5 * q * q - 4 * p * (q - p))
SinTurn(i, n) ==
    IF 2 * i <= n THEN HalfSine(2 * i, n) ELSE 0 - HalfSine(2 * i - n, n)
\* Math.PI * 2 in thousandths
TwoPi == 6283
SineDataset ==
    [inputs  |-> [k \in 1 .. SinePoints |-> << ((k - 1) * TwoPi) \div SinePoints >>],
     outputs |-> [k \in 1 .. SinePoints |-> << SinTurn(k - 1, SinePoints) >>],
     type    |-> "regression"]

\* generateDataset whose switch has no default branch
generateDataset_NoDefault(datasetType, rnd) ==
    CASE datasetType = "xor"    -> XorDataset
      [] datasetType = "circle" -> CircleDataset(rnd)
      [] datasetType = "sine"   -> SineDataset
      [] OTHER                  -> EmptyDataset

\* the dataset generateDataset(datasetType) stores; rnd are its random draws
generateDataset(datasetType, rnd) ==
    CASE datasetType = "xor"    -> XorDataset
      [] datasetType = "circle" -> CircleDataset(rnd)
      [] datasetType = "sine"   -> SineDataset
      [] OTHER                  -> XorDataset

----------------------------------------------------------------------------
(* Training configuration *)

EpochRange == MinEpochs .. MaxEpochs
\* epochs: 100 in the source, scaled down with the slider
DefaultEpochs == MinEpochs
DefaultLearningRate == 30
DefaultBatchSize == 32
\* the upper ends of the learning rate slider (0.1) and of the batch size slider
MaxLearningRate == 100
MaxBatchSize == 128
LearningRateChoices == {MaxLearningRate}
BatchSizeChoices == {MaxBatchSize}

DefaultTrainingConfig ==
    [learningRate |-> DefaultLearningRate, epochs |-> DefaultEpochs,
     batchSize |-> DefaultBatchSize, dataset |-> "xor"]

\* { ...trainingConfig, [key]: value }
ConfigChangeResult(cfg, key, value) == [cfg EXCEPT ![key] = value]

----------------------------------------------------------------------------
(* Simulated training *)

EmptyStats == [loss |-> << >>, accuracy |-> << >>]

\* Math.random() * 0.1, in thousandths: [0, 100)
StatNoise == {0, 99}
LossFloor == 100
AccuracyCap == 980

\* the loss entry without Math.max(0.1, ...)
NewLoss_NoFloor(newProgress, epochs, r) ==
    One - (newProgress * One) \div epochs + r

\* Math.max(0.1, 1 - newProgress / epochs + Math.random() * 0.1)
NewLoss(newProgress, epochs, r) ==
    Max(LossFloor, One - (newProgress * One) \div epochs + r)
\* Math.min(0.98, newProgress / epochs + Math.random() * 0.1)
NewAccuracy(newProgress, epochs, r) ==
    Min(AccuracyCap, (newProgress * One) \div epochs + r)

\* the updater given to setTrainingStats
AppendStats(prev, newProgress, epochs, r1, r2) ==
    [loss     |-> Append(prev.loss, NewLoss(newProgress, epochs, r1)),
     accuracy |-> Append(prev.accuracy, NewAccuracy(newProgress, epochs, r2))]

NoIntervals == [e \in EpochRange |-> 0]
RECURSIVE SumOver(_, _)
SumOver(f, S) ==
    IF S = {} THEN 0
    ELSE LET x == CHOOSE y \in S : TRUE IN f[x] + SumOver(f, S \ {x})
\* how many intervals are live
LiveIntervals == SumOver(intervals, EpochRange)

\* setInterval(...) in a render whose trainingConfig.epochs is e
SetInterval(ivs, e) == [ivs EXCEPT ![e] = @ + 1]
\* clearInterval(interval) by the callback of an interval that captured e
ClearInterval(ivs, e) == [ivs EXCEPT ![e] = @ - 1]

----------------------------------------------------------------------------
(* Predictions *)

\* Math.random() * 0.3 - 0.15, in thousandths: [-150, 150)
PredictionNoise == {-150, 149}

\* makePredictions without the clamp of Math.min(1, Math.max(0, ...))
SimulatedPredictions_NoClamp(ds, noise) ==
    [i \in 1 .. Len(ds.inputs) |->
        [input     |-> ds.inputs[i],
         actual    |-> ds.outputs[i][1],
         predicted |-> ds.outputs[i][1] + noise[i]]]

\* dataset.inputs.map(...) of makePredictions; noise[i] is the draw of sample i
SimulatedPredictions(ds, noise) ==
    [i \in 1 .. Len(ds.inputs) |->
        [input     |-> ds.inputs[i],
         actual    |-> ds.outputs[i][1],
         predicted |-> Min(One, Max(0, ds.outputs[i][1] + noise[i]))]]

----------------------------------------------------------------------------
(* History *)

\* lastOp: the handler, its argument, and what it found: the length of the
\* layer list for removeLayer, the number of stored predictions for reset,
\* the trainingProgress of the run before for start
Op(name, arg, pre) == [op |-> name, arg |-> arg, pre |-> pre]
NoRun == [ctl |-> "none", clean |-> FALSE, epochs |-> 0, completed |-> FALSE]

----------------------------------------------------------------------------
(* Initial state: the values given to useState *)

Init ==
    /\ mounted = FALSE
    /\ layers = DefaultLayers
    /\ trainingConfig = DefaultTrainingConfig
    /\ isTraining = FALSE
    /\ trainingProgress = 0
    /\ trainingStats = EmptyStats
    /\ predictions = << >>
    /\ dataset = EmptyDataset
    /\ intervals = NoIntervals
    /\ lastOp = Op("init", 0, 0)
    /\ run = NoRun

\* the mount effect: loadTensorFlow() calls generateDataset(trainingConfig.dataset)
LoadTensorFlow ==
    /\ ~mounted
    /\ mounted' = TRUE
    /\ dataset' = generateDataset(trainingConfig.dataset, NoDraws)
    /\ lastOp' = Op("loadTensorFlow", 0, 0)
    /\ UNCHANGED <<layers, trainingConfig, isTraining, trainingProgress,
                   trainingStats, predictions, intervals, run>>

----------------------------------------------------------------------------
(* Handlers of the network designer *)

\* onAddLayer
HandleAddLayer ==
    /\ mounted
    /\ Len(layers) < MaxLayers
    /\ layers' = AddLayerResult(layers)
    /\ lastOp' = Op("addLayer", 0, 0)
    /\ UNCHANGED <<mounted>>
    /\ UNCHANGED trainVars

\* onRemoveLayer(index), for every index of the list
HandleRemoveLayer(index) ==
    /\ mounted
    /\ layers' = RemoveLayerResult(layers, index)
    /\ lastOp' = Op("removeLayer", index, Len(layers))
    /\ UNCHANGED <<mounted>>
    /\ UNCHANGED trainVars

\* what NetworkDesigner passes to onUpdateLayer for a layer: the neurons
\* input is disabled for the input and the output layer, the activation
\* select is not rendered for the input layer
LayerUpdates(layer) ==
    (IF layer.type = "hidden"
        THEN {[neurons |-> n] : n \in NeuronChoices} ELSE {})
    \cup
    (IF layer.type # "input"
        THEN {[activation |-> a] : a \in Activations} ELSE {})

\* onUpdateLayer(index, updates)
HandleUpdateLayer(index, updates) ==
    /\ mounted
    /\ layers' = UpdateLayerResult(layers, index, updates)
    /\ lastOp' = Op("updateLayer", 0, 0)
    /\ UNCHANGED <<mounted>>
    /\ UNCHANGED trainVars

----------------------------------------------------------------------------
(* Handlers of the training panel *)

\* handleTrainingConfigChange that never calls generateDataset
HandleTrainingConfigChange_NoRegenerate(key, value, rnd) ==
    /\ mounted
    /\ trainingConfig' = ConfigChangeResult(trainingConfig, key, value)
    /\ lastOp' = Op(key, 0, 0)
    /\ run' = [run EXCEPT !.clean = FALSE]
    /\ UNCHANGED <<mounted, layers, isTraining, trainingProgress, trainingStats,
                   predictions, intervals, dataset>>

\* handleTrainingConfigChange(key, value); rnd are the draws of
\* generateDataset
HandleTrainingConfigChange(key, value, rnd) ==
    /\ mounted
    /\ trainingConfig' = ConfigChangeResult(trainingConfig, key, value)
    /\ dataset' = IF key = "dataset" THEN generateDataset(value, rnd) ELSE dataset
    /\ lastOp' = Op(key, 0, 0)
    /\ run' = [run EXCEPT !.clean = FALSE]
    /\ UNCHANGED <<mounted, layers, isTraining, trainingProgress, trainingStats,
                   predictions, intervals>>

\* startTraining without setTrainingProgress(0) and setTrainingStats(...)
StartTraining_KeepsRun ==
    /\ mounted
    /\ ~isTraining
    /\ LiveIntervals < MaxIntervals
    /\ isTraining' = TRUE
    /\ intervals' = SetInterval(intervals, trainingConfig.epochs)
    /\ lastOp' = Op("start", trainingConfig.epochs, trainingProgress)
    /\ run' = [ctl |-> "start", clean |-> TRUE,
               epochs |-> trainingConfig.epochs, completed |-> FALSE]
    /\ UNCHANGED <<mounted, layers, trainingConfig, predictions, dataset,
                   trainingProgress, trainingStats>>

\* startTraining: the Start button is rendered while !isTraining
StartTraining ==
    /\ mounted
    /\ ~isTraining
    /\ LiveIntervals < MaxIntervals
    /\ isTraining' = TRUE
    /\ trainingProgress' = 0
    /\ trainingStats' = EmptyStats
    /\ intervals' = SetInterval(intervals, trainingConfig.epochs)
    /\ lastOp' = Op("start", trainingConfig.epochs, trainingProgress)
    /\ run' = [ctl |-> "start", clean |-> TRUE,
               epochs |-> trainingConfig.epochs, completed |-> FALSE]
    /\ UNCHANGED <<mounted, layers, trainingConfig, predictions, dataset>>

\* the callback of an interval whose closure holds trainingConfig.epochs = e:
\* the updater of setTrainingProgress, with the state it sets from within
Tick(e) ==
    /\ intervals[e] > 0
    /\ LET newProgress == trainingProgress + 1 IN
        IF newProgress >= e
        THEN /\ intervals' = ClearInterval(intervals, e)
             /\ isTraining' = FALSE
             /\ trainingProgress' = e
             /\ trainingStats' = trainingStats
             /\ run' = [run EXCEPT !.completed = TRUE]
        ELSE /\ \E r1 \in StatNoise, r2 \in StatNoise :
                    trainingStats' = AppendStats(trainingStats, newProgress, e, r1, r2)
             /\ trainingProgress' = newProgress
             /\ UNCHANGED <<intervals, isTraining, run>>
    /\ lastOp' = Op("tick", e, 0)
    /\ UNCHANGED <<mounted, layers, trainingConfig, predictions, dataset>>

\* stopTraining: the Stop button is rendered while isTraining
StopTraining ==
    /\ mounted
    /\ isTraining
    /\ isTraining' = FALSE
    /\ lastOp' = Op("stop", 0, 0)
    /\ run' = [run EXCEPT !.ctl = "stop", !.clean = FALSE]
    /\ UNCHANGED <<mounted, layers, trainingConfig, trainingProgress,
                   trainingStats, predictions, dataset, intervals>>

\* resetTraining without its setPredictions([])
ResetTraining_KeepsPredictions ==
    /\ mounted
    /\ trainingProgress' = 0
    /\ trainingStats' = EmptyStats
    /\ lastOp' = Op("reset", 0, Len(predictions))
    /\ run' = [run EXCEPT !.ctl = "reset", !.clean = FALSE]
    /\ UNCHANGED <<mounted, layers, trainingConfig, isTraining, dataset,
                   intervals, predictions>>

\* resetTraining
ResetTraining ==
    /\ mounted
    /\ trainingProgress' = 0
    /\ trainingStats' = EmptyStats
    /\ predictions' = << >>
    /\ lastOp' = Op("reset", 0, Len(predictions))
    /\ run' = [run EXCEPT !.ctl = "reset", !.clean = FALSE]
    /\ UNCHANGED <<mounted, layers, trainingConfig, isTraining, dataset, intervals>>

\* makePredictions behind a button that is never disabled
MakePredictions_NeverDisabled ==
    /\ mounted
    /\ \E noise \in [1 .. Len(dataset.inputs) -> PredictionNoise] :
            predictions' = SimulatedPredictions(dataset, noise)
    /\ lastOp' = Op("predict", 0, 0)
    /\ UNCHANGED <<mounted, layers, trainingConfig, isTraining, trainingProgress,
                   trainingStats, dataset, intervals, run>>

\* makePredictions: the button is disabled while trainingProgress === 0
MakePredictions ==
    /\ mounted
    /\ trainingProgress # 0
    /\ \E noise \in [1 .. Len(dataset.inputs) -> PredictionNoise] :
            predictions' = SimulatedPredictions(dataset, noise)
    /\ lastOp' = Op("predict", 0, 0)
    /\ UNCHANGED <<mounted, layers, trainingConfig, isTraining, trainingProgress,
                   trainingStats, dataset, intervals, run>>

----------------------------------------------------------------------------
(* Specifications *)

\* The designer's handlers read and write the layer list alone, the training
\* panel's handlers never touch it: the two halves of the component are
\* checked apart, each from the mounted component.

NextTopology ==
    \/ LoadTensorFlow
    \/ HandleAddLayer
    \/ \E index \in 0 .. Len(layers) - 1 : HandleRemoveLayer(index)
    \/ \E index \in 0 .. Len(layers) - 1 :
         \E updates \in LayerUpdates(layers[index + 1]) :
            HandleUpdateLayer(index, updates)

\* the training run under every epochs setting
NextTraining ==
    \/ LoadTensorFlow
    \/ \E value \in EpochRange :
         HandleTrainingConfigChange("epochs", value, NoDraws)
    \/ StartTraining
    \/ \E e \in EpochRange : Tick(e)
    \/ StopTraining
    \/ ResetTraining

\* the training run at the default epochs setting, with the predictions
NextPredict ==
    \/ LoadTensorFlow
    \/ StartTraining
    \/ \E e \in EpochRange : Tick(e)
    \/ StopTraining
    \/ ResetTraining
    \/ MakePredictions

\* the values of the dataset select
DatasetIds == {"xor", "circle", "sine"}
\* the draws of a circle dataset whose points all lie at the angle 0
CircleDrawsAtZero == {rnd \in CircleDraws : \A i \in DOMAIN rnd : rnd[i][1] = 0}

\* the predictions over every dataset of the select, with a training run at
\* the default epochs setting that is never stopped
NextPlay ==
    \/ LoadTensorFlow
    \/ \E value \in DatasetIds :
         \E rnd \in (IF value = "circle" THEN CircleDrawsAtZero ELSE {NoDraws}) :
            HandleTrainingConfigChange("dataset", value, rnd)
    \/ StartTraining
    \/ \E e \in EpochRange : Tick(e)
    \/ ResetTraining
    \/ MakePredictions

\* what generateDataset can be called with: the values of the select and
\* strings that are none of them
AnyDatasetIds == DatasetIds \cup {"mnist", ""}

\* the training configuration: every key, and every dataset
NextDataset ==
    \/ LoadTensorFlow
    \/ \E value \in AnyDatasetIds :
         \E rnd \in (IF value = "circle" THEN CircleDraws ELSE {NoDraws}) :
            HandleTrainingConfigChange("dataset", value, rnd)
    \/ \E value \in LearningRateChoices :
         HandleTrainingConfigChange("learningRate", value, NoDraws)
    \/ \E value \in EpochRange :
         HandleTrainingConfigChange("epochs", value, NoDraws)
    \/ \E value \in BatchSizeChoices :
         HandleTrainingConfigChange("batchSize", value, NoDraws)

\* the epochs slider as it is in the source: 10, 20, ..., 500
SliderMinEpochs == 10
SliderMaxEpochs == 500
SliderStep == 10
SliderEpochs ==
    {e \in SliderMinEpochs .. SliderMaxEpochs : (e - SliderMinEpochs) % SliderStep = 0}

\* the updater of setTrainingStats as a function of its inputs: a run with
\* epochs from the slider, at any trainingProgress from which the callback
\* appends, the series so far left out
InitStats ==
    /\ mounted = TRUE
    /\ layers = DefaultLayers
    /\ \E e \in SliderEpochs :
         /\ trainingConfig = ConfigChangeResult(DefaultTrainingConfig, "epochs", e)
         /\ trainingProgress \in 0 .. e - 2
    /\ isTraining = TRUE
    /\ trainingStats = EmptyStats
    /\ predictions = << >>
    /\ dataset = XorDataset
    /\ intervals = NoIntervals
    /\ lastOp = Op("init", 0, 0)
    /\ run = NoRun

\* the branch of the interval callback that appends, with
\* trainingConfig.epochs as the epochs its closure holds
StatsUpdater ==
    /\ lastOp.op = "init"
    /\ trainingProgress + 1 < trainingConfig.epochs
    /\ \E r1 \in StatNoise, r2 \in StatNoise :
         trainingStats' = AppendStats(trainingStats, trainingProgress + 1,
                                      trainingConfig.epochs, r1, r2)
    /\ trainingProgress' = trainingProgress + 1
    /\ lastOp' = Op("tick", trainingConfig.epochs, 0)
    /\ UNCHANGED <<mounted, layers, trainingConfig, isTraining, predictions,
                   dataset, intervals, run>>

\* the whole component
Next == NextTopology \/ NextTraining \/ NextPredict \/ NextPlay \/ NextDataset
Spec == Init /\ [][Next]_vars

SpecTopology == Init /\ [][NextTopology]_vars
SpecTraining == Init /\ [][NextTraining]_vars
SpecPredict == Init /\ [][NextPredict]_vars
SpecPlay == Init /\ [][NextPlay]_vars
SpecDataset == Init /\ [][NextDataset]_vars
SpecStats == InitStats /\ [][StatsUpdater]_vars

----------------------------------------------------------------------------
(* Properties of the training run *)

\* C1: after stopTraining, until the next startTraining or resetTraining, no
\* step changes trainingProgress or trainingStats (no tick fires after a stop).
C1_StopFreezesRun ==
    [][(run.ctl = "stop" /\ run'.ctl = "stop")
         => (trainingProgress' = trainingProgress /\ trainingStats' = trainingStats)]_vars

\* C2: in every reachable state at most one interval is live.
C2_OneTickSource == LiveIntervals <= 1

\* C3: when a run started with epochs = E has completed, with no stop, reset or
\* configuration change since its start, both series have length E.
C3_SeriesLengthE ==
    (run.clean /\ run.completed)
        => /\ Len(trainingStats.loss) = run.epochs
           /\ Len(trainingStats.accuracy) = run.epochs

\* C4: a run started with epochs = E and not interrupted by a stop, a reset or
\* a configuration change ends only by completing, and from then on, until
\* the next start or reset, trainingProgress is E, isTraining is false and no
\* interval is live.
C4_CompletesAtE ==
    (run.ctl = "start" /\ run.clean /\ (run.completed \/ ~isTraining))
        => /\ run.completed
           /\ ~isTraining
           /\ trainingProgress = run.epochs
           /\ LiveIntervals = 0

\* C5: in the state right after resetTraining, from whatever state it was
\* called in, trainingProgress is 0 and both series and the predictions are
\* empty.
C5_ResetClears ==
    lastOp.op = "reset"
        => /\ trainingProgress = 0
           /\ trainingStats.loss = << >>
           /\ trainingStats.accuracy = << >>
           /\ predictions = << >>

\* resetTraining has just run in a running component that held predictions
C5_Witness ==
    /\ lastOp.op = "reset"
    /\ lastOp.pre > 0
    /\ isTraining
    /\ LiveIntervals > 0

\* C6: after resetTraining, until the next startTraining, the run is idle:
\* isTraining is false, no interval is live, trainingProgress is 0 and both
\* series are empty.
C6_ResetIdles ==
    run.ctl = "reset"
        => /\ ~isTraining
           /\ LiveIntervals = 0
           /\ trainingProgress = 0
           /\ trainingStats = EmptyStats

----------------------------------------------------------------------------
(* Properties of the layer list *)

\* C7: in every reachable state the first layer is the input layer and the
\* last layer is the output layer.
C7_InputFirstOutputLast ==
    /\ layers[1].type = "input"
    /\ layers[Len(layers)].type = "output"

\* C8: every reachable layer list still holds the input layer and the output
\* layer.
C8_InputOutputKept ==
    /\ \E i \in 1 .. Len(layers) : layers[i].type = "input"
    /\ \E i \in 1 .. Len(layers) : layers[i].type = "output"

\* C9: handleRemoveLayer(i) with i = 0 or i the last index leaves the layer
\* list as it is: the same layers, with the same fields, in the same order.
C9_ProtectedRemoveIsNoOp ==
    [][(lastOp'.op = "removeLayer" /\ lastOp'.arg \in {0, Len(layers) - 1})
         => layers' = layers]_vars

\* handleRemoveLayer has just run on the last index of a list of four layers
\* (the default list after one handleAddLayer), which still has four
C9_Witness ==
    /\ lastOp.op = "removeLayer"
    /\ lastOp.pre = 4
    /\ lastOp.arg = lastOp.pre - 1
    /\ Len(layers) = 4

\* C10: handleRemoveLayer(i) with 0 < i < last index makes the list one layer
\* shorter: the layers before position i stay where they are, the layers
\* after it move down by one, and the layer at i is gone.
C10_RemoveDeletesExactlyOne ==
    [][\A i \in 1 .. Len(layers) - 2 :
         (lastOp'.op = "removeLayer" /\ lastOp'.arg = i)
            => /\ Len(layers') = Len(layers) - 1
               /\ \A j \in 1 .. Len(layers') :
                    layers'[j] = IF j <= i THEN layers[j] ELSE layers[j + 1]]_vars

\* handleRemoveLayer has just deleted a layer from the middle of the list
C10_Witness ==
    /\ lastOp.op = "removeLayer"
    /\ 0 < lastOp.arg
    /\ lastOp.arg < lastOp.pre - 1
    /\ Len(layers) = lastOp.pre - 1

----------------------------------------------------------------------------
(* Properties of the predictions *)

\* C11: makePredictions stores one result per sample of the dataset, in the
\* order of the samples: result k holds sample k's input, actual is the
\* first value of sample k's output, and predicted is actual plus a noise in
\* [-0.15, 0.15) clamped into [0, 1].
C11_OnePredictionPerSample ==
    lastOp.op = "predict"
        => /\ Len(predictions) = Len(dataset.inputs)
           /\ \A k \in 1 .. Len(predictions) :
                /\ predictions[k].input = dataset.inputs[k]
                /\ predictions[k].actual = dataset.outputs[k][1]
                /\ predictions[k].predicted >= 0
                /\ predictions[k].predicted <= One
                /\ \E n \in -150 .. 149 :
                     LET v == predictions[k].actual + n IN
                       predictions[k].predicted =
                         IF v < 0 THEN 0 ELSE IF v > One THEN One ELSE v

\* makePredictions has just run on the sine dataset, whose last but one value,
\* -1, is clamped to 0
C11_Witness ==
    /\ lastOp.op = "predict"
    /\ dataset.type = "regression"
    /\ Len(predictions) = SinePoints
    /\ \E k \in 1 .. Len(predictions) :
         predictions[k].actual < 0 /\ predictions[k].predicted = 0

\* C12: makePredictions never runs in a state whose trainingProgress is 0:
\* not before the first tick, and not after startTraining or resetTraining
\* has set trainingProgress back to 0.
C12_NoPredictionAtEpochZero ==
    [][lastOp'.op = "predict" => (trainingProgress # 0 /\ trainingProgress' # 0)]_vars

\* makePredictions has just run in a run that was reset and ticked again
C12_Witness ==
    /\ lastOp.op = "predict"
    /\ run.ctl = "reset"
    /\ trainingProgress > 0
    /\ predictions # << >>

----------------------------------------------------------------------------
(* Properties of the dataset *)

\* C13: while the dataset setting is "xor" or any string other than "circle"
\* and "sine", the dataset is the XOR table: the four inputs (0,0), (0,1),
\* (1,0), (1,1) in this order, the outputs 0, 1, 1, 0, and the type
\* classification.
C13_XorAndFallback ==
    (mounted /\ trainingConfig.dataset \notin {"circle", "sine"})
        => /\ Len(dataset.inputs) = 4
           /\ dataset.inputs = << <<0, 0>>, <<0, 1000>>, <<1000, 0>>, <<1000, 1000>> >>
           /\ dataset.outputs = << <<0>>, <<1000>>, <<1000>>, <<0>> >>
           /\ dataset.type = "classification"

\* generateDataset has just run with a string that is no value of the select
C13_Witness ==
    /\ lastOp.op = "dataset"
    /\ trainingConfig.dataset = "mnist"
    /\ Len(dataset.inputs) = 4

\* C14: after the initial load the dataset has the type and the number of
\* samples of the generator the dataset setting names, and a change of
\* learningRate, epochs or batchSize leaves the dataset as it is.
C14_DatasetFollowsSelector ==
    /\ [](mounted =>
            LET id == trainingConfig.dataset IN
              /\ dataset.type = (IF id = "sine" THEN "regression" ELSE "classification")
              /\ Len(dataset.inputs) =
                   (CASE id = "circle" -> CirclePoints
                      [] id = "sine"   -> SinePoints
                      [] OTHER         -> 4)
              /\ Len(dataset.outputs) = Len(dataset.inputs))
    /\ [][lastOp'.op \in {"learningRate", "epochs", "batchSize"}
            => dataset' = dataset]_vars

\* the select has just been changed from another dataset to the sine wave
C14_Witness ==
    /\ lastOp.op = "dataset"
    /\ trainingConfig.dataset = "sine"
    /\ dataset.type = "regression"
    /\ trainingConfig.learningRate = MaxLearningRate

----------------------------------------------------------------------------
(* Properties of starting, of the series' values and of adding a layer *)

\* C15: startTraining sets isTraining, sets trainingProgress to 0 and empties
\* both series, whatever the run before left in them, and leaves the layers,
\* the dataset and the training configuration as they are.
C15_StartResetsRun ==
    [][lastOp'.op = "start"
         => /\ isTraining'
            /\ trainingProgress' = 0
            /\ trainingStats'.loss = << >>
            /\ trainingStats'.accuracy = << >>
            /\ layers' = layers
            /\ dataset' = dataset
            /\ trainingConfig' = trainingConfig]_vars

\* startTraining has just run after a run that had made progress
C15_Witness ==
    /\ lastOp.op = "start"
    /\ lastOp.pre > 0
    /\ isTraining
    /\ trainingProgress = 0

\* C16: every loss value is at least 0.1 and every accuracy value at most
\* 0.98, for every epochs of the slider and every draw; the values appended
\* at epoch e of a run of E epochs are max(0.1, 1 - e/E + noise) and
\* min(0.98, e/E + noise) with noise in [0, 0.1).
C16_SeriesValues ==
    /\ \A k \in 1 .. Len(trainingStats.loss) : trainingStats.loss[k] >= 100
    /\ \A k \in 1 .. Len(trainingStats.accuracy) : trainingStats.accuracy[k] <= 980
    /\ lastOp.op = "tick" =>
         LET e == trainingProgress
             E == lastOp.arg
             frac == (e * 1000) \div E
         IN /\ Len(trainingStats.loss) = 1
            /\ Len(trainingStats.accuracy) = 1
            /\ \E n \in 0 .. 99 :
                 trainingStats.loss[1] =
                   (IF 1000 - frac + n < 100 THEN 100 ELSE 1000 - frac + n)
            /\ \E n \in 0 .. 99 :
                 trainingStats.accuracy[1] =
                   (IF frac + n > 980 THEN 980 ELSE frac + n)

\* the updater has just appended at epoch 499 of 500, where the loss is held
\* up at 0.1 and the accuracy held down at 0.98
C16_Witness ==
    /\ lastOp.op = "tick"
    /\ trainingConfig.epochs = 500
    /\ trainingProgress = 499
    /\ trainingStats.loss = << 100 >>
    /\ trainingStats.accuracy = << 980 >>

\* C17: handleAddLayer makes the list one layer longer: the new layer is a
\* hidden layer of 4 neurons with relu, and the layers there were before are
\* all still there, unchanged and in the order they had.
C17_AddOneHiddenLayer ==
    [][lastOp'.op = "addLayer"
         => /\ Len(layers') = Len(layers) + 1
            /\ \E p \in 1 .. Len(layers') :
                 /\ layers'[p] = [type |-> "hidden", neurons |-> 4, activation |-> "relu"]
                 /\ \A j \in 1 .. Len(layers) :
                      layers[j] = layers'[IF j < p THEN j ELSE j + 1]]_vars

\* handleAddLayer has just run on a list whose hidden layer had been changed
C17_Witness ==
    /\ lastOp.op = "addLayer"
    /\ Len(layers) = 4
    /\ layers[2].neurons = MaxNeurons
    /\ layers[4].type = "hidden"

----------------------------------------------------------------------------
(* Properties across the handlers *)

\* C18: in every reachable state trainingProgress is at least 0 and at most
\* the epochs of the current training configuration.
C18_ProgressWithinEpochs ==
    /\ 0 <= trainingProgress
    /\ trainingProgress <= trainingConfig.epochs

\* C19: in every reachable state the stored predictions are empty or match
\* the samples of the current dataset one to one: as many entries as samples,
\* entry k holding sample k's input and the first value of sample k's output.
C19_PredictionsMatchDataset ==
    \/ predictions = << >>
    \/ /\ Len(predictions) = Len(dataset.inputs)
       /\ \A k \in 1 .. Len(predictions) :
            /\ predictions[k].input = dataset.inputs[k]
            /\ predictions[k].actual = dataset.outputs[k][1]

====
